---- MODULE Spec2Model ----
(***************************************************************************)
(* A model of the audio session and resource-lifecycle managers of         *)
(* voice-forge-pro:                                                        *)
(*   - PerformanceManager (performance-manager): the concurrency limiter   *)
(*     and the blob registry;                                              *)
(*   - AudioManager with currentPlayingId (src/lib/audio-manager.ts);      *)
(*   - the singleton AudioManager (getInstance variant);                   *)
(*   - RecordingManager.                                                   *)
(* One step of the model is one synchronous segment of the JavaScript      *)
(* event loop: the code between two suspension points (await, event,       *)
(* timer) runs atomically, and segments interleave freely.                 *)
(***************************************************************************)
EXTENDS Integers, Sequences, FiniteSets, TLC

(***************************************************************************)
(* Bounds of the model.                                                    *)
(***************************************************************************)
\* number of executeWithConcurrencyLimit calls that are issued
MaxCalls == 4

\* number of calls when all of them have the same priority
MaxSameCalls == 5

\* number of AudioManager.playAudio calls that are issued (audio-manager.ts)
MaxPlays == 3

\* number of Audio elements the singleton AudioManager creates
MaxElems == 3

\* number of buffer sources generateVoicePreview creates
MaxPreviews == 3

\* largest maxAttempts option a withRetry call is given (the default is 3)
MaxAttempts == 3

\* number of RecordingManager.startRecording calls that are issued
MaxStarts == 2

\* number of object URLs that URL.createObjectURL hands out
MaxUrls == 3

\* the recorder's clock runs from 0 to MaxRecTime, in seconds
MaxRecTime == 3

\* number of non-empty data chunks a MediaRecorder delivers
MaxChunks == 2

\* the clock runs from 0 to MaxTime, in units of fifteen minutes
MaxTime == 3

(***************************************************************************)
(* PerformanceManager: the concurrency limiter.                            *)
(***************************************************************************)
\* private maxConcurrentTasks = 3
maxConcurrentTasks == 3

Callers == 1..MaxSameCalls

\* ProcessingTask['type']
TaskTypes == {"tts", "clone", "analyze", "download"}

Priorities == {"high", "normal", "low"}

\* the (type, priority) pairs the modelled callers submit
TaskInputs ==
    { <<"tts", "normal">>, <<"analyze", "normal">>,
      <<"download", "low">>, <<"clone", "high">> }

VARIABLES
    lpc,          \* position of each executeWithConcurrencyLimit call
    ltype,        \* taskType argument of each call
    lprio,        \* priority argument of each call
    activeTasks,  \* the Map activeTasks, as the sequence of its keys in insertion order
    raceOn,       \* the promises a waiting call's Promise.race was built from
    aborted       \* per task in flight: whether and by whom its AbortController was aborted

limVars == <<lpc, ltype, lprio, activeTasks, raceOn, aborted>>

VARIABLES
    instances,         \* AudioManager.instances: per id its AudioInstance, or NoInst
    currentPlayingId,  \* AudioManager.currentPlayingId
    amCalls,           \* the playAudio calls: their id and the state of their play promise
    amEvt,             \* the playback event of the latest step and the callbacks it invoked
    globalVolume,      \* AudioManager.globalVolume
    volThrew,          \* the latest step assigned an out-of-range audio.volume, which threw
    revoked            \* the object URLs passed to URL.revokeObjectURL so far

amVars == <<instances, currentPlayingId, amCalls, amEvt, globalVolume, volThrew>>

VARIABLES
    sgEl,         \* singleton AudioManager: the Audio elements created so far
    activeAudio,  \* singleton AudioManager.activeAudio: per id its element, or 0
    previews,     \* the buffer sources generateVoicePreview created for one voice
    activePreview \* activeAudio's entry of that voice's preview id: a source, or 0

sgVars == <<sgEl, activeAudio, previews, activePreview>>

VARIABLES
    recPc,          \* position of each startRecording call
    mediaRecorder,  \* RecordingManager.mediaRecorder: a recorder, or 0 for null
    recorders,      \* the MediaRecorder objects created so far
    stream,         \* RecordingManager.stream: a stream, or 0 for null
    streamStopped,  \* per MediaStream obtained from getUserMedia: its tracks were stopped
    chunks,         \* RecordingManager.chunks: the number of chunks it holds
    startTime,      \* RecordingManager.startTime
    pausedDuration, \* RecordingManager.pausedDuration
    durationTimer,  \* RecordingManager.durationTimer is set
    recNow,         \* Date.now() as the recorder sees it, in seconds
    isSupported,    \* RecordingManager.isSupported() in this browser, as the first
                    \* startRecording call finds it
    startError      \* the latest failure of startRecording: the platform's reason
                    \* and the error handed to onError and to the caller

recVars == <<recPc, mediaRecorder, recorders, stream, streamStopped,
             chunks, startTime, pausedDuration, durationTimer, recNow,
             isSupported, startError>>

VARIABLES
    retryPc,      \* position of the withRetry call
    maxAttempts,  \* its option maxAttempts
    attempt,      \* its loop variable attempt
    viaDownload,  \* its operation is the one downloadAudioWithRetry passes
    opError,      \* the error the operation's latest failed attempt raised
    thrown,       \* the error withRetry threw to its caller, or NoError
    onRetryCalls  \* the attempt numbers the option onRetry was called with

retryVars == <<retryPc, maxAttempts, attempt, viaDownload, opError, thrown,
               onRetryCalls>>

VARIABLES
    blobRegistry,     \* PerformanceManager.blobRegistry: per id its entry, or NoEntry
    blobOrder,        \* the keys of blobRegistry in insertion order (Object.keys)
    nextUrl,          \* the object URL that URL.createObjectURL returns next
    now,              \* Date.now()
    cleanupInterval,  \* PerformanceManager.cleanupInterval is set
    lastCreate        \* when the latest registry step was a createBlobUrl call: its id
                      \* and the registry as checkMemoryUsage found it; else NoCreate

regVars == <<blobRegistry, blobOrder, nextUrl, now, cleanupInterval, lastCreate>>

notLimiter == <<amVars, revoked, sgVars, recVars, regVars, retryVars>>

notAudio == <<limVars, sgVars, recVars, regVars, retryVars>>

notSingleton == <<limVars, amVars, revoked, recVars, regVars, retryVars>>

notRecording == <<limVars, amVars, revoked, sgVars, regVars, retryVars>>

notRegistry == <<amVars, sgVars, recVars, retryVars>>

notRetry == <<limVars, amVars, revoked, sgVars, recVars, regVars>>

vars == <<limVars, amVars, revoked, sgVars, recVars, regVars, retryVars>>

SeqToSet(s) == { s[i] : i \in 1..Len(s) }

RemoveKey(s, k) == SelectSeq(s, LAMBDA x : x # k)

(***************************************************************************)
(* Error values (audio-manager.ts).  An error is its class, its name, its  *)
(* message as a sequence of text fragments, and the AudioError fields type *)
(* and retryable, "none" and "undefined" on an error that has none.        *)
(***************************************************************************)
NoError ==
    [cls |-> "none", name |-> "none", msg |-> <<>>,
     type |-> "none", retryable |-> "undefined"]

\* new DOMException(..., name), as the platform raises it
DomException(name) ==
    [cls |-> "DOMException", name |-> name, msg |-> <<name>>,
     type |-> "none", retryable |-> "undefined"]

\* new Error(message), possibly renamed; new TypeError(message)
PlainError(name, message) ==
    [cls |-> "Error", name |-> name, msg |-> message,
     type |-> "none", retryable |-> "undefined"]

TypeErr(message) ==
    [cls |-> "TypeError", name |-> "TypeError", msg |-> message,
     type |-> "none", retryable |-> "undefined"]

\* createAudioError(message, type, retryable): an Error carrying type and retryable
createAudioError(message, type, retryable) ==
    [cls |-> "Error", name |-> "Error", msg |-> message,
     type |-> type, retryable |-> IF retryable THEN "true" ELSE "false"]

\* classifyAudioError(error)
classifyAudioError(error) ==
    IF error.cls = "DOMException"
    THEN CASE error.name = "NotAllowedError" ->
                  createAudioError(<<"Microphone access denied.">>, "recording", FALSE)
           [] error.name = "NotFoundError" ->
                  createAudioError(<<"No microphone found.">>, "recording", FALSE)
           [] error.name = "NotSupportedError" ->
                  createAudioError(<<"Audio recording not supported in this browser.">>,
                                   "recording", FALSE)
           [] error.name = "AbortError" ->
                  createAudioError(<<"Audio operation was aborted.">>, "playback", TRUE)
           [] error.name = "NetworkError" ->
                  createAudioError(<<"Network error occurred while loading audio.">>,
                                   "network", TRUE)
           [] error.name = "DecodingError" ->
                  createAudioError(<<"Audio file could not be decoded.">>, "decode", FALSE)
           [] OTHER ->
                  createAudioError(<<"Audio operation failed: ">> \o error.msg,
                                   "unknown", TRUE)
    ELSE IF error.cls = "TypeError"
            /\ \E i \in 1..Len(error.msg) : error.msg[i] = "Failed to fetch"
    THEN createAudioError(<<"Failed to download audio.">>, "network", TRUE)
    ELSE IF error.name = "InvalidStateError"
    THEN createAudioError(<<"Recording is in an invalid state.">>, "recording", TRUE)
    ELSE createAudioError(IF error.msg = <<>>
                          THEN <<"An unknown audio error occurred">>
                          ELSE error.msg,
                          "unknown", TRUE)

\* the names of the DOMExceptions an operation is made to raise
DomNames ==
    {"NotAllowedError", "NotFoundError", "NotSupportedError", "AbortError",
     "NetworkError", "DecodingError", "NotReadableError"}

\* the errors the operation downloadAudioWithRetry passes to withRetry can
\* raise before its own catch block: fetch failing or aborted, and the error
\* it creates for a response that is not ok, retryable for 5xx and 429 only
DownloadErrors ==
    {TypeErr(<<"Failed to fetch">>), DomException("AbortError")}
    \cup { createAudioError(<<"Download failed">>, "network", r) : r \in BOOLEAN }

\* the errors an operation handed to withRetry is made to raise
OpErrors ==
    { DomException(n) : n \in DomNames }
    \cup DownloadErrors
    \cup {PlainError("InvalidStateError", <<"invalid state">>),
          PlainError("Error", <<"failed">>),
          createAudioError(<<"Invalid audio">>, "validation", FALSE)}

\* withRetry(operation, {maxAttempts}) is called
WithRetry(max, download) ==
    /\ retryPc = "idle"
    /\ retryPc' = "running"
    /\ maxAttempts' = max
    /\ attempt' = 1
    /\ viaDownload' = download
    /\ UNCHANGED <<opError, thrown, onRetryCalls, notRetry>>

\* the awaited operation() fulfils: withRetry returns its value
OperationFulfils ==
    /\ retryPc = "running"
    /\ retryPc' = "returned"
    /\ UNCHANGED <<maxAttempts, attempt, viaDownload, opError, thrown, onRetryCalls,
                   notRetry>>

\* a loop that gives up on a non-retryable error only
giveUpNonRetryable(audioError, n, max) == audioError.retryable # "true"

\* `!audioError.retryable || attempt === maxAttempts`
giveUp(audioError, n, max) == audioError.retryable # "true" \/ n = max

\* the awaited operation() rejects with error: the catch block of the loop.
\* The operation of downloadAudioWithRetry classifies its error before it
\* rethrows it.
OperationRejects(error) ==
    /\ retryPc = "running"
    /\ error \in (IF viaDownload THEN DownloadErrors ELSE OpErrors)
    /\ LET lastError == IF viaDownload THEN classifyAudioError(error) ELSE error
           audioError == classifyAudioError(lastError)
       IN  /\ opError' = error
           /\ IF giveUp(audioError, attempt, maxAttempts)
              THEN /\ retryPc' = "threw"
                   /\ thrown' = audioError
                   /\ onRetryCalls' = onRetryCalls
              ELSE /\ retryPc' = "waiting"
                   /\ thrown' = thrown
                   /\ onRetryCalls' = Append(onRetryCalls, attempt)
    /\ UNCHANGED <<maxAttempts, attempt, viaDownload, notRetry>>

\* the delay before the next attempt has passed: the loop invokes operation() again
RetryTimer ==
    /\ retryPc = "waiting"
    /\ retryPc' = "running"
    /\ attempt' = attempt + 1
    /\ UNCHANGED <<maxAttempts, viaDownload, opError, thrown, onRetryCalls, notRetry>>

RetryInit ==
    /\ retryPc = "idle"
    /\ maxAttempts = MaxAttempts
    /\ attempt = 0
    /\ viaDownload = FALSE
    /\ opError = NoError
    /\ thrown = NoError
    /\ onRetryCalls = <<>>

RetryNext ==
    \/ \E max \in 1..MaxAttempts, download \in BOOLEAN : WithRetry(max, download)
    \/ OperationFulfils
    \/ \E error \in OpErrors : OperationRejects(error)
    \/ RetryTimer

\* task.type === 'analyze' || task.type === 'download'
IsPreemptible(t) == ltype[t] \in {"analyze", "download"}

\* index of the task cancelLowPriorityTasks picks: the first preemptible task in
\* the Map's iteration (insertion) order; 0 when there is none
FirstPreemptible(s) ==
    IF \E i \in 1..Len(s) : IsPreemptible(s[i])
    THEN CHOOSE i \in 1..Len(s) :
            /\ IsPreemptible(s[i])
            /\ \A j \in 1..(i - 1) : ~IsPreemptible(s[j])
    ELSE 0

\* cancelLowPriorityTasks without its `break`: every preemptible task is aborted
CancelEvery(s) == { s[i] : i \in { j \in 1..Len(s) : IsPreemptible(s[j]) } }

\* the tasks one call of cancelLowPriorityTasks aborts and deletes
cancelLowPriorityTasks(s) ==
    LET i == FirstPreemptible(s) IN IF i = 0 THEN {} ELSE {s[i]}

\* One synchronous run of waitForSlot's loop for call c with priority p, up to
\* its return or its next await.
waitForSlot(c, p) ==
    IF Len(activeTasks) >= maxConcurrentTasks
    THEN LET cut   == IF p = "high" THEN cancelLowPriorityTasks(activeTasks) ELSE {}
             after == SelectSeq(activeTasks, LAMBDA x : x \notin cut)
         IN  /\ activeTasks' = after
             /\ aborted' = [t \in Callers |-> IF t \in cut THEN "preempt" ELSE aborted[t]]
             /\ IF Len(after) >= maxConcurrentTasks
                THEN /\ lpc' = [lpc EXCEPT ![c] = "waiting"]
                     /\ raceOn' = [raceOn EXCEPT ![c] = SeqToSet(after)]
                ELSE /\ lpc' = [lpc EXCEPT ![c] = "ready"]
                     /\ raceOn' = [raceOn EXCEPT ![c] = {}]
    ELSE /\ lpc' = [lpc EXCEPT ![c] = "ready"]
         /\ raceOn' = [raceOn EXCEPT ![c] = {}]
         /\ UNCHANGED <<activeTasks, aborted>>

\* executeWithConcurrencyLimit is called: it runs waitForSlot up to its first
\* suspension; even when waitForSlot returns at once, `await` resumes the
\* caller in a later turn.
SubmitFrom(c, inputs) ==
    /\ lpc[c] = "idle"
    /\ \A d \in Callers : d < c => lpc[d] # "idle"
    /\ \E in \in inputs :
         /\ ltype' = [ltype EXCEPT ![c] = in[1]]
         /\ lprio' = [lprio EXCEPT ![c] = in[2]]
         /\ waitForSlot(c, in[2])
    /\ UNCHANGED notLimiter

Submit(c) == SubmitFrom(c, TaskInputs)

\* the same call, of a caller whose tasks all have priority normal
SubmitNormal(c) == SubmitFrom(c, { in \in TaskInputs : in[2] = "normal" })

\* `await Promise.race(...)` resumes after a raced promise fulfilled: the loop
\* condition is evaluated again.
ResumeWait(c) ==
    /\ lpc[c] = "wokenOk"
    /\ waitForSlot(c, lprio[c])
    /\ UNCHANGED <<ltype, lprio>>
    /\ UNCHANGED notLimiter

\* `await Promise.race(...)` resumes after a raced promise rejected: the await
\* throws, waitForSlot rejects and so does executeWithConcurrencyLimit, before
\* taskFn was invoked.
ResumeThrow(c) ==
    /\ lpc[c] = "wokenErr"
    /\ lpc' = [lpc EXCEPT ![c] = "rejected"]
    /\ ltype' = [ltype EXCEPT ![c] = "tts"]
    /\ lprio' = [lprio EXCEPT ![c] = "normal"]
    /\ UNCHANGED <<activeTasks, raceOn, aborted>>
    /\ UNCHANGED notLimiter

\* the continuation after `await this.waitForSlot(priority)`: taskFn is invoked
\* and the task is put into activeTasks
Admit(c) ==
    /\ lpc[c] = "ready"
    /\ lpc' = [lpc EXCEPT ![c] = "running"]
    /\ activeTasks' = Append(activeTasks, c)
    /\ UNCHANGED <<ltype, lprio, raceOn, aborted>>
    /\ UNCHANGED notLimiter

\* a finally block that leaves the task in the Map
keepTask(s, t) == s

\* the finally block: this.activeTasks.delete(taskId)
deleteTask(s, t) == RemoveKey(s, t)

\* task.promise settles: the finally block deletes the task, the call returns
\* or throws, and every Promise.race built from this promise settles the same way
Settle(t, ok) ==
    /\ lpc[t] = "running"
    /\ activeTasks' = deleteTask(activeTasks, t)
    /\ lpc' = [c \in Callers |->
                 IF c = t THEN (IF ok THEN "returned" ELSE "threw")
                 ELSE IF lpc[c] = "waiting" /\ t \in raceOn[c]
                      THEN (IF ok THEN "wokenOk" ELSE "wokenErr")
                      ELSE lpc[c]]
    /\ raceOn' = [c \in Callers |->
                 IF lpc[c] = "waiting" /\ t \in raceOn[c] THEN {} ELSE raceOn[c]]
    \* the settled task object is dropped with its call
    /\ ltype' = [ltype EXCEPT ![t] = "tts"]
    /\ lprio' = [lprio EXCEPT ![t] = "normal"]
    /\ aborted' = [aborted EXCEPT ![t] = "no"]
    /\ UNCHANGED notLimiter

TaskFulfils(t) == Settle(t, TRUE)

TaskRejects(t) == Settle(t, FALSE)

\* cancelAllTasks(): abort every task of activeTasks, then clear the Map
\* cancelAllTasks(): abort every task in the Map, then clear it
cancelAllTasksStep ==
    /\ aborted' = [t \in Callers |->
                     IF t \in SeqToSet(activeTasks) /\ aborted[t] = "no"
                     THEN "cancelAll" ELSE aborted[t]]
    /\ activeTasks' = <<>>
    /\ UNCHANGED <<lpc, ltype, lprio, raceOn>>

cancelAllTasks ==
    /\ Len(activeTasks) > 0
    /\ cancelAllTasksStep
    /\ UNCHANGED notLimiter

LimiterInit ==
    /\ lpc = [c \in Callers |-> "idle"]
    /\ ltype = [c \in Callers |-> "tts"]
    /\ lprio = [c \in Callers |-> "normal"]
    /\ activeTasks = <<>>
    /\ raceOn = [c \in Callers |-> {}]
    /\ aborted = [c \in Callers |-> "no"]

LimiterNext ==
    \/ \E c \in 1..MaxCalls : Submit(c)
    \/ \E c \in Callers : ResumeWait(c)
    \/ \E c \in Callers : ResumeThrow(c)
    \/ \E c \in Callers : Admit(c)
    \/ \E t \in Callers : TaskFulfils(t)
    \/ \E t \in Callers : TaskRejects(t)
    \/ cancelAllTasks

\* the limiter used with tasks of one priority only
LimiterSameNext ==
    \/ \E c \in Callers : SubmitNormal(c)
    \/ \E c \in Callers : ResumeWait(c)
    \/ \E c \in Callers : ResumeThrow(c)
    \/ \E c \in Callers : Admit(c)
    \/ \E t \in Callers : TaskFulfils(t)
    \/ \E t \in Callers : TaskRejects(t)
    \/ cancelAllTasks

\* the limiter used by MaxCalls callers whose tasks all have priority normal
LimiterNormalNext ==
    \/ \E c \in 1..MaxCalls : SubmitNormal(c)
    \/ \E c \in Callers : ResumeWait(c)
    \/ \E c \in Callers : ResumeThrow(c)
    \/ \E c \in Callers : Admit(c)
    \/ \E t \in Callers : TaskFulfils(t)
    \/ \E t \in Callers : TaskRejects(t)
    \/ cancelAllTasks

\* Continuations queued on the microtask queue always run, and (the assumption
\* of the liveness claim) every running task eventually settles.
LimiterFairness ==
    /\ \A c \in 1..MaxCalls : WF_vars(ResumeWait(c))
    /\ \A c \in 1..MaxCalls : WF_vars(ResumeThrow(c))
    /\ \A c \in 1..MaxCalls : WF_vars(Admit(c))
    /\ \A t \in 1..MaxCalls : WF_vars(TaskFulfils(t) \/ TaskRejects(t))

\* taskFn of call c has been invoked
Invoked(c) == lpc[c] \in {"running", "returned", "threw"}

\* C1: in every reachable state the running set (activeTasks) holds at most
\* maxConcurrentTasks = 3 tasks.
C1_RunningSetBounded == Len(activeTasks) <= maxConcurrentTasks

\* C7: a call that found the limiter full and waits for a slot is eventually
\* admitted (its taskFn is invoked), whether the running task that settles
\* fulfilled or rejected, given that every running task eventually settles.
C7_WaiterEventuallyAdmitted ==
    \A c \in 1..MaxCalls : (lpc[c] = "waiting") ~> Invoked(c)

\* a step in which call c runs waitForSlot with priority high on a full limiter:
\* one preemption attempt
HighAttempt(c) ==
    /\ lpc[c] \in {"idle", "wokenOk"}
    /\ lpc'[c] \in {"waiting", "ready"}
    /\ lprio'[c] = "high"
    /\ Len(activeTasks) >= maxConcurrentTasks

NewlyPreempted == { t \in Callers : aborted[t] # "preempt" /\ aborted'[t] = "preempt" }

PreemptibleRunning ==
    { t \in SeqToSet(activeTasks) : ltype[t] \in {"analyze", "download"} }

\* C8: each preemption attempt of a high-priority call on a full limiter aborts
\* exactly one task of the running set if the set holds an 'analyze' or
\* 'download' task and none otherwise; the aborted task is of such a type (a
\* 'tts' or 'clone' task is never aborted by preemption); with exactly 3
\* preemptible tasks running, one is aborted and the call goes on to admission
\* without a further attempt; no other step preempts anything.
C8_PreemptsExactlyOne ==
    [][ /\ \A c \in Callers : HighAttempt(c) =>
              /\ IF PreemptibleRunning # {}
                 THEN Cardinality(NewlyPreempted) = 1
                 ELSE NewlyPreempted = {}
              /\ (Len(activeTasks) = maxConcurrentTasks
                    /\ PreemptibleRunning = SeqToSet(activeTasks))
                  => (lpc'[c] = "ready" /\ Cardinality(NewlyPreempted) = 1)
        /\ (\A c \in Callers : ~HighAttempt(c)) => NewlyPreempted = {}
        /\ NewlyPreempted \subseteq PreemptibleRunning
      ]_vars

\* a high-priority call runs after it preempted a task that is still in flight
C8_Witness ==
    \E c \in Callers, t \in Callers :
        /\ lprio[c] = "high" /\ lpc[c] = "running"
        /\ aborted[t] = "preempt" /\ lpc[t] = "running"

\* C21: among calls of the same priority, admission follows the order of the
\* calls: no call is admitted (its taskFn invoked) while an earlier call of the
\* same priority is still waiting for a slot.
C21_FifoAdmission ==
    [][ \A c \in Callers :
          (lpc[c] = "ready" /\ lpc'[c] = "running") =>
              \A d \in Callers :
                  (d < c /\ lpc[d] = "waiting") => lprio[d] # lprio[c]
      ]_vars

\* C22: a task whose promise has settled, its call having returned or thrown,
\* is no longer in activeTasks.
C22_SettledNotRunning ==
    \A t \in Callers :
        lpc[t] \in {"returned", "threw"} => t \notin SeqToSet(activeTasks)

\* one call has returned and another has thrown while a third task still runs
C22_Witness ==
    /\ \E t \in Callers : lpc[t] = "returned"
    /\ \E t \in Callers : lpc[t] = "threw"
    /\ Len(activeTasks) > 0

\* C25: the promise of executeWithConcurrencyLimit rejects only with an error
\* of its own taskFn: no call rejects without having invoked its taskFn.
C25_RejectsOnlyOwnError ==
    \A c \in Callers : lpc[c] # "rejected"

\* the task functions that were invoked and whose promise has not settled
InFlight == { t \in Callers : lpc[t] = "running" }

\* C27: the number of task functions invoked and not yet settled never
\* exceeds maxConcurrentTasks, also after preemption or cancelAllTasks.
C27_InFlightBounded == Cardinality(InFlight) <= maxConcurrentTasks

(***************************************************************************)
(* PerformanceManager: the blob registry.                                  *)
(***************************************************************************)
\* Sizes are in units of 10 MB and times in units of fifteen minutes.
\* private maxBlobAge = 30 * 60 * 1000
maxBlobAge == 2

\* private maxBlobSize = 100 * 1024 * 1024
maxBlobSize == 10

BlobIds == {"x", "y", "z"}

\* blob.size of the blobs that are registered
BlobSizes == {3, 6, 12}

NoEntry == [url |-> 0, createdAt |-> 0, lastAccessed |-> 0, size |-> 0]

\* the registry as one value, for the methods below
PmState == [reg |-> blobRegistry, order |-> blobOrder, rev |-> revoked]

HasEntry(r, id) == id \in SeqToSet(r.order)

\* revokeBlobUrl(id) without `delete this.blobRegistry[id]`
revokeKeepEntry(r, id) ==
    IF HasEntry(r, id) THEN [r EXCEPT !.rev = @ \cup {r.reg[id].url}] ELSE r

\* revokeBlobUrl(id)
revokeBlobUrl(r, id) ==
    IF HasEntry(r, id)
    THEN [r EXCEPT !.rev = @ \cup {r.reg[id].url},
                   !.reg[id] = NoEntry,
                   !.order = RemoveKey(@, id)]
    ELSE r

RECURSIVE RevokeAll(_, _)
RevokeAll(r, ids) ==
    IF ids = <<>> THEN r ELSE RevokeAll(revokeBlobUrl(r, Head(ids)), Tail(ids))

\* accessBlobUrl(id): its effect on the registry
accessBlobUrl(r, id, t) ==
    IF HasEntry(r, id) THEN [r EXCEPT !.reg[id].lastAccessed = t] ELSE r

\* accessBlobUrl(id): the value it returns, NoEntry.url standing for null
accessBlobUrlValue(r, id) == IF HasEntry(r, id) THEN r.reg[id].url ELSE NoEntry.url

\* a sweep condition that looks at the time since the last access only
ExpiredIdleOnly(e, t) == t - e.lastAccessed > maxBlobAge \div 2

\* the condition under which cleanupBlobs removes an entry
Expired(e, t) ==
    \/ t - e.createdAt > maxBlobAge
    \/ t - e.lastAccessed > maxBlobAge \div 2

\* cleanupBlobs()
cleanupBlobs(r, t) ==
    RevokeAll(r, SelectSeq(r.order, LAMBDA id : Expired(r.reg[id], t)))

RECURSIVE SumSizes(_, _)
SumSizes(reg, ids) ==
    IF ids = <<>> THEN 0 ELSE reg[Head(ids)].size + SumSizes(reg, Tail(ids))

\* Object.values(this.blobRegistry).reduce((sum, entry) => sum + entry.size, 0)
TotalSize(r) == SumSizes(r.reg, r.order)

\* the entries in insertion order, not sorted
InsertionOrder(reg, ids) == ids

RECURSIVE InsertByAccess(_, _, _)
InsertByAccess(reg, sorted, id) ==
    IF sorted = <<>> THEN <<id>>
    ELSE IF reg[Head(sorted)].lastAccessed <= reg[id].lastAccessed
    THEN <<Head(sorted)>> \o InsertByAccess(reg, Tail(sorted), id)
    ELSE <<id>> \o sorted

\* Object.entries(...).sort by lastAccessed ascending (the sort is stable)
RECURSIVE SortByAccess(_, _)
SortByAccess(reg, ids) ==
    IF ids = <<>> THEN <<>>
    ELSE InsertByAccess(reg, SortByAccess(reg, SubSeq(ids, 1, Len(ids) - 1)), ids[Len(ids)])

\* the eviction loop of checkMemoryUsage
RECURSIVE EvictLoop(_, _, _, _)
EvictLoop(r, ids, removedSize, targetReduction) ==
    IF ids = <<>> \/ removedSize >= targetReduction THEN r
    ELSE EvictLoop(revokeBlobUrl(r, Head(ids)), Tail(ids),
                   removedSize + r.reg[Head(ids)].size, targetReduction)

\* checkMemoryUsage() that evicts the least recently accessed entry only
checkMemoryOnce(r) ==
    IF TotalSize(r) > maxBlobSize
    THEN revokeBlobUrl(r, Head(SortByAccess(r.reg, r.order)))
    ELSE r

\* checkMemoryUsage()
checkMemoryUsage(r) ==
    LET totalSize == TotalSize(r)
    IN  IF totalSize > maxBlobSize
        THEN EvictLoop(r, SortByAccess(r.reg, r.order), 0,
                       totalSize - (maxBlobSize * 8) \div 10)
        ELSE r

\* createBlobUrl: `this.blobRegistry[blobId] = {...}`
insertEntry(r, id, size, url, t) ==
    [r EXCEPT !.reg[id] = [url |-> url, createdAt |-> t,
                           lastAccessed |-> t, size |-> size],
              !.order = IF HasEntry(r, id) THEN @ ELSE Append(@, id)]

\* createBlobUrl(blob, id), where url is what URL.createObjectURL returns
createBlobUrl(r, id, size, url, t) ==
    checkMemoryUsage(insertEntry(r, id, size, url, t))

NoCreate == [id |-> "none", reg |-> [id \in BlobIds |-> NoEntry], order |-> <<>>]

PmSet(r) ==
    /\ blobRegistry' = r.reg
    /\ blobOrder' = r.order
    /\ revoked' = r.rev

CreateBlobUrl(id, size) ==
    /\ nextUrl <= MaxUrls
    /\ PmSet(createBlobUrl(PmState, id, size, nextUrl, now))
    /\ nextUrl' = nextUrl + 1
    /\ LET r0 == insertEntry(PmState, id, size, nextUrl, now)
       IN  lastCreate' = [id |-> id, reg |-> r0.reg, order |-> r0.order]
    /\ UNCHANGED <<now, cleanupInterval, limVars, notRegistry>>

AccessBlobUrl(id) ==
    /\ HasEntry(PmState, id)
    /\ PmSet(accessBlobUrl(PmState, id, now))
    /\ lastCreate' = NoCreate
    /\ UNCHANGED <<nextUrl, now, cleanupInterval, limVars, notRegistry>>

RevokeBlobUrl(id) ==
    /\ HasEntry(PmState, id)
    /\ PmSet(revokeBlobUrl(PmState, id))
    /\ lastCreate' = NoCreate
    /\ UNCHANGED <<nextUrl, now, cleanupInterval, limVars, notRegistry>>

\* cleanupBlobs() as called by the cleanup timer and by the memory check
CleanupBlobs ==
    /\ blobOrder # <<>>
    /\ PmSet(cleanupBlobs(PmState, now))
    /\ lastCreate' = NoCreate
    /\ UNCHANGED <<nextUrl, now, cleanupInterval, limVars, notRegistry>>

\* cleanup(): cancelAllTasks(), revoke every blob URL, clear the cleanup timer
PmCleanup ==
    /\ cancelAllTasksStep
    /\ PmSet(RevokeAll(PmState, blobOrder))
    /\ cleanupInterval' = FALSE
    /\ lastCreate' = NoCreate
    /\ UNCHANGED <<nextUrl, now, notRegistry>>

\* time passes
Tick ==
    /\ now < MaxTime
    /\ now' = now + 1
    /\ lastCreate' = NoCreate
    /\ UNCHANGED <<blobRegistry, blobOrder, revoked, nextUrl, cleanupInterval,
                   limVars, notRegistry>>

RegistryInit ==
    /\ blobRegistry = [id \in BlobIds |-> NoEntry]
    /\ blobOrder = <<>>
    /\ nextUrl = 1
    /\ now = 0
    /\ cleanupInterval = TRUE
    /\ lastCreate = NoCreate

\* the calls of the registry's methods
RegistryCallNext ==
    \/ \E id \in BlobIds, size \in BlobSizes : CreateBlobUrl(id, size)
    \/ \E id \in BlobIds : AccessBlobUrl(id)
    \/ \E id \in BlobIds : RevokeBlobUrl(id)
    \/ CleanupBlobs
    \/ PmCleanup

RegistryNext ==
    \/ RegistryCallNext
    \/ Tick

(***************************************************************************)
(* AudioManager with currentPlayingId (src/lib/audio-manager.ts).          *)
(***************************************************************************)
AudioIds == {"a", "b"}

NoId == "null"

\* URLs are numbers: object URLs ('blob:...') are 1, 2, ... in the order
\* URL.createObjectURL returns them; StaticUrl is a persistent (non-blob) URL
\* and NoUrl is no URL at all (playAudio's optional url)
StaticUrl == 0

NoUrl == -1

\* url.startsWith('blob:')
IsBlobUrl(u) == u > 0

\* The HTMLAudioElement of an instance: "paused" (paused attribute true, not
\* ended), "loading" (play() called, its promise pending), "playing" (audible),
\* "ended" (played to the end).
\* Volumes are whole numbers: 0 and 1 are in the range of audio.volume, any
\* other value is out of range.  Playback rates are in units of 0.5.
\* the default volume of an Audio element, and of options.volume
DefaultVolume == 1

\* the default playbackRate of an Audio element: 1.0
DefaultRate == 2

\* the numbers passed as a volume and as a playback rate
VolumeArgs == {0 - 1, 0, 1, 2}

RateArgs == {0, 1, 4, 5}

\* Math.max(lo, Math.min(hi, x))
Clamp(lo, hi, x) == IF x < lo THEN lo ELSE IF x > hi THEN hi ELSE x

NoInst == [el |-> "none", url |-> NoUrl, cb |-> FALSE, vol |-> DefaultVolume]

Registered(s, id) == s.inst[id].el # "none"

PlayCalls == 1..MaxPlays

NoCall == [id |-> NoId, st |-> "unused"]

NoEvt == [kind |-> "none", id |-> NoId, cb |-> FALSE, onEnded |-> 0, onError |-> 0]

\* the manager's state as one value, for the methods below
AmState ==
    [inst |-> instances, cur |-> currentPlayingId, calls |-> amCalls,
     evt |-> NoEvt, rev |-> revoked, gvol |-> globalVolume, threw |-> FALSE]

\* Pending play promises of the element of id are rejected: `how` is "queued"
\* for pause() (the rejection is a queued media element task) and "now" for
\* load() (queued tasks are flushed) and for a rejected promise returned by play().
RejectPending(s, id, how) ==
    [s EXCEPT !.calls = [k \in PlayCalls |->
        IF s.calls[k].id = id /\ s.calls[k].st \in {"pending", "queued"}
        THEN [s.calls[k] EXCEPT !.st = how]
        ELSE s.calls[k]]]

\* the cleanup closure of createAudio: remove the listeners, pause and unload
\* the element, revoke a blob URL, delete the instance, clear currentPlayingId
cleanup(s, id) ==
    LET i  == s.inst[id]
        s1 == RejectPending(s, id, "now")
    IN  [s1 EXCEPT !.inst[id] = NoInst,
                   !.rev = IF IsBlobUrl(i.url) THEN s.rev \cup {i.url} ELSE s.rev,
                   !.cur = IF s.cur = id THEN NoId ELSE s.cur]

\* stopAudio(id) that removes the instance and leaves currentPlayingId alone
stopAudioKeepCurrent(s, id) ==
    IF Registered(s, id) THEN [cleanup(s, id) EXCEPT !.cur = s.cur] ELSE s

\* stopAudio(id)
stopAudio(s, id) == IF Registered(s, id) THEN cleanup(s, id) ELSE s

\* createAudio(id, url, {volume, ...}): the setter of audio.volume throws
\* IndexSizeError for a value outside [0, 1], before the instance is registered
createAudioWith(s, id, url, cb, volume) ==
    LET s1 == stopAudio(s, id)
        v  == volume * s.gvol
    IN  IF v < 0 \/ v > 1
        THEN [s1 EXCEPT !.threw = TRUE]
        ELSE [s1 EXCEPT !.inst[id] = [el |-> "paused", url |-> url, cb |-> cb,
                                      vol |-> v]]

\* createAudio(id, url, options) without options.volume
createAudio(s, id, url, cb) == createAudioWith(s, id, url, cb, DefaultVolume)

\* setVolume(id, volume)
setVolume(s, id, volume) ==
    IF Registered(s, id)
    THEN [s EXCEPT !.inst[id].vol = Clamp(0, 1, volume) * s.gvol]
    ELSE s

\* setGlobalVolume(volume)
setGlobalVolume(s, volume) ==
    LET g == Clamp(0, 1, volume)
    IN  [s EXCEPT !.gvol = g,
                  !.inst = [id \in AudioIds |->
                              IF Registered(s, id)
                              THEN [s.inst[id] EXCEPT !.vol = @ * g]
                              ELSE s.inst[id]]]

pauseAudio(s, id) ==
    IF Registered(s, id)
    THEN LET s1 == IF s.inst[id].el \in {"loading", "playing"}
                   THEN RejectPending([s EXCEPT !.inst[id].el = "paused"], id, "queued")
                   ELSE s
         IN  [s1 EXCEPT !.cur = IF s.cur = id THEN NoId ELSE s.cur]
    ELSE s

\* playAudio up to `await instance.audio.play()`; `allowed` is whether the
\* user agent allows the element to play (otherwise play() returns a promise
\* rejected with NotAllowedError and leaves the element paused)
playAudio(s, k, id, url, allowed) ==
    LET s1 == IF s.cur # NoId /\ s.cur # id THEN pauseAudio(s, s.cur) ELSE s
        s2 == IF ~Registered(s1, id) /\ url # NoUrl
              THEN createAudio(s1, id, url, FALSE) ELSE s1
    IN  IF ~Registered(s2, id)
        THEN \* throw new Error(`Audio instance ${id} not found`)
             [s2 EXCEPT !.calls[k] = [id |-> id, st |-> "now"]]
        ELSE IF allowed
        THEN [s2 EXCEPT !.cur = id,
                        !.inst[id].el = IF @ \in {"paused", "ended"} THEN "loading" ELSE @,
                        !.calls[k] = [id |-> id, st |-> "pending"]]
        ELSE [s2 EXCEPT !.cur = id,
                        !.calls[k] = [id |-> id, st |-> "now"],
                        !.evt = [kind |-> "failure", id |-> id, cb |-> s2.inst[id].cb,
                                 onEnded |-> 0, onError |-> 0]]

\* the catch block of playAudio, for every play promise that is rejected by now:
\* currentPlayingId = null, and the call throws
catchPlay(s) ==
    IF \E k \in PlayCalls : s.calls[k].st = "now"
    THEN [s EXCEPT !.cur = NoId,
                   !.calls = [k \in PlayCalls |->
                       IF s.calls[k].st = "now"
                       THEN [s.calls[k] EXCEPT !.st = "threw"] ELSE s.calls[k]]]
    ELSE s

\* the end of a synchronous segment: the microtasks (the catch blocks of the
\* play promises rejected in it) run, and the manager's state is stored
AmSet(s) ==
    LET r == catchPlay(s)
    IN  /\ instances' = r.inst
        /\ currentPlayingId' = r.cur
        /\ amCalls' = r.calls
        /\ amEvt' = r.evt
        /\ revoked' = r.rev
        /\ globalVolume' = r.gvol
        /\ volThrew' = r.threw

\* the URLs a caller can pass: a static URL, or an object URL that
\* createBlobUrl returned and the registry still holds
UrlChoices == {StaticUrl} \cup { blobRegistry[id].url : id \in SeqToSet(blobOrder) }

CreateAudio(id) ==
    /\ \E url \in UrlChoices, cb \in BOOLEAN :
         AmSet(createAudio(AmState, id, url, cb))
    /\ UNCHANGED notAudio

PlayAudio(k, id) ==
    /\ amCalls[k].st = "unused"
    /\ \A j \in PlayCalls : j < k => amCalls[j].st # "unused"
    /\ \E url \in UrlChoices \cup {NoUrl}, allowed \in BOOLEAN :
         /\ allowed \/ instances[id].el \in {"none", "paused", "ended"}
         /\ AmSet(playAudio(AmState, k, id, url, allowed))
    /\ UNCHANGED notAudio

PauseAudio(id) ==
    /\ Registered(AmState, id)
    /\ AmSet(pauseAudio(AmState, id))
    /\ UNCHANGED notAudio

\* createAudio called with options.volume
CreateAudioVolume(id) ==
    /\ \E url \in UrlChoices, cb \in BOOLEAN, volume \in VolumeArgs :
         AmSet(createAudioWith(AmState, id, url, cb, volume))
    /\ UNCHANGED notAudio

SetVolume(id) ==
    /\ \E volume \in VolumeArgs : AmSet(setVolume(AmState, id, volume))
    /\ UNCHANGED notAudio

SetGlobalVolume ==
    /\ \E volume \in VolumeArgs : AmSet(setGlobalVolume(AmState, volume))
    /\ UNCHANGED notAudio

StopAudio(id) ==
    /\ Registered(AmState, id)
    /\ AmSet(stopAudio(AmState, id))
    /\ UNCHANGED notAudio

RECURSIVE CleanupAll(_, _)
CleanupAll(s, ids) ==
    IF ids = {} THEN s
    ELSE LET id == CHOOSE x \in ids : TRUE
         IN  CleanupAll(cleanup(s, id), ids \ {id})

\* stopAllAudio(): cleanup of every instance, then clear the table
stopAllAudio(s) ==
    [CleanupAll(s, { id \in AudioIds : Registered(s, id) }) EXCEPT !.cur = NoId]

StopAllAudio ==
    /\ \E id \in AudioIds : Registered(AmState, id)
    /\ AmSet(stopAllAudio(AmState))
    /\ UNCHANGED notAudio

\* the play promise of the element of id fulfils: every playAudio call awaiting
\* it resolves
PlayFulfils(id) ==
    /\ instances[id].el \in {"loading", "playing"}
    /\ \E k \in PlayCalls : amCalls[k].id = id /\ amCalls[k].st = "pending"
    /\ AmSet([AmState EXCEPT
            !.inst[id].el = "playing",
            !.calls = [k \in PlayCalls |->
                IF amCalls[k].id = id /\ amCalls[k].st = "pending"
                THEN [amCalls[k] EXCEPT !.st = "resolved"] ELSE amCalls[k]]])
    /\ UNCHANGED notAudio

\* the queued rejection (AbortError after pause()) of the play promises of id runs
PlayRejects(id) ==
    /\ \E k \in PlayCalls : amCalls[k].id = id /\ amCalls[k].st = "queued"
    /\ AmSet([AmState EXCEPT !.calls = [k \in PlayCalls |->
            IF amCalls[k].id = id /\ amCalls[k].st = "queued"
            THEN [amCalls[k] EXCEPT !.st = "now"] ELSE amCalls[k]]])
    /\ UNCHANGED notAudio

\* the 'ended' event: handleEnded
handleEnded(s, id) ==
    [s EXCEPT !.inst[id].el = "ended", !.cur = NoId,
              !.evt = [kind |-> "ended", id |-> id, cb |-> s.inst[id].cb,
                       onEnded |-> IF s.inst[id].cb THEN 1 ELSE 0, onError |-> 0]]

Ended(id) ==
    /\ instances[id].el = "playing"
    /\ \A k \in PlayCalls : amCalls[k].id = id => amCalls[k].st \notin {"pending", "queued"}
    /\ AmSet(handleEnded(AmState, id))
    /\ UNCHANGED notAudio

\* the 'error' event (the source cannot be loaded or decoded): handleError
handleError(s, id) ==
    LET s1 == [s EXCEPT !.evt = [kind |-> "failure", id |-> id, cb |-> s.inst[id].cb,
                                 onEnded |-> 0,
                                 onError |-> IF s.inst[id].cb THEN 1 ELSE 0]]
    IN  cleanup(s1, id)

MediaError(id) ==
    /\ instances[id].el \in {"loading", "playing"}
    /\ AmSet(handleError(AmState, id))
    /\ UNCHANGED notAudio

AudioInit ==
    /\ instances = [id \in AudioIds |-> NoInst]
    /\ currentPlayingId = NoId
    /\ amCalls = [k \in PlayCalls |-> NoCall]
    /\ amEvt = NoEvt
    /\ revoked = {}
    /\ globalVolume = DefaultVolume
    /\ volThrew = FALSE

\* playAudio calls and the events of the audio elements
AudioPlayNext ==
    \/ \E k \in PlayCalls, id \in AudioIds : PlayAudio(k, id)
    \/ \E id \in AudioIds : PlayFulfils(id)
    \/ \E id \in AudioIds : PlayRejects(id)
    \/ \E id \in AudioIds : Ended(id)
    \/ \E id \in AudioIds : MediaError(id)

\* creation and disposal of instances
AudioLifecycleNext ==
    \/ \E id \in AudioIds : CreateAudio(id)
    \/ \E id \in AudioIds : StopAudio(id)
    \/ StopAllAudio

\* the calls that set volumes, with createAudio and stopAudio
AudioVolumeNext ==
    \/ \E id \in AudioIds : CreateAudioVolume(id)
    \/ \E id \in AudioIds : SetVolume(id)
    \/ SetGlobalVolume
    \/ \E id \in AudioIds : StopAudio(id)

AudioNext ==
    \/ AudioPlayNext
    \/ AudioLifecycleNext
    \/ \E id \in AudioIds : PauseAudio(id)

\* isPlaying(id)
isPlaying(id) == currentPlayingId = id

\* C2: once a playAudio(B) call resolves, and an earlier playAudio call was for
\* another id A, isPlaying(B) is true and isPlaying(A) is false.
C2_LastPlayIsPlaying ==
    [][ \A k \in PlayCalls :
          ( /\ amCalls[k].st = "pending"
            /\ amCalls'[k].st = "resolved"
            /\ \E j \in PlayCalls : j < k /\ amCalls[j].id # amCalls[k].id )
          => /\ isPlaying(amCalls[k].id)'
             /\ \A j \in PlayCalls :
                   (j < k /\ amCalls[j].id # amCalls[k].id) => ~isPlaying(amCalls[j].id)'
      ]_vars

\* the element of id is un-paused and audible
Audible(id) == instances[id].el = "playing"

\* C4: the audio elements of two different ids are never audibly playing at
\* the same time.
C4_OneAudible == Cardinality({ id \in AudioIds : Audible(id) }) <= 1

\* C10: for an instance created with onEnded and onError, an 'ended' event
\* invokes onEnded exactly once and a playback failure (an 'error' event, or a
\* play() rejected because the element may not play) invokes onError exactly once.
C10_CallbackExactlyOnce ==
    amEvt.cb =>
        /\ (amEvt.kind = "ended" => amEvt.onEnded = 1)
        /\ (amEvt.kind = "failure" => amEvt.onError = 1)

\* C11: after an 'ended' event and after a playback failure (a rejected
\* play() or an 'error' event) of the session of an id, the id has no entry
\* left in the instance table.
C11_SessionRemoved ==
    amEvt.kind \in {"ended", "failure"} => ~Registered(AmState, amEvt.id)

(***************************************************************************)
(* The singleton AudioManager (getInstance variant, lib/audioManager).     *)
(***************************************************************************)
\* An Audio element: the id it was created for; its state "paused",
\* "loading" (un-paused, play promise pending), "playing", "ended" or "error";
\* whether its cleanup closure has run (listeners removed); and the state of
\* the play promise its playAudio call awaits ("pending", "queued": an
\* AbortError rejection is queued, "now": rejected, "none": settled and handled).
SgState ==
    [el |-> sgEl, act |-> activeAudio, pv |-> previews, apv |-> activePreview]

\* !instance.audio.paused
Unpaused(x) == x.st \in {"loading", "playing"}

\* stopAudio(id): pause and rewind the registered element, then its cleanup
\* (remove the listeners, delete the entry)
sgStopAudio(s, id) ==
    LET e == s.act[id]
    IN  IF e = 0 THEN s
        ELSE LET x == s.el[e]
             IN  [s EXCEPT
                    !.el[e] = [x EXCEPT
                                 !.st = IF Unpaused(x) THEN "paused" ELSE x.st,
                                 !.pend = IF x.pend = "pending" THEN "queued" ELSE x.pend,
                                 !.clean = TRUE],
                    !.act[id] = 0]

\* playAudio without `this.stopAudio(id)` at its start
sgPlayNoStop(s, id, allowed) ==
    LET e  == Len(s.el) + 1
    IN  [s EXCEPT
           !.el = Append(@, [id |-> id,
                             st |-> IF allowed THEN "loading" ELSE "paused",
                             clean |-> FALSE,
                             vol |-> DefaultVolume,
                             rate |-> DefaultRate,
                             pend |-> IF allowed THEN "pending" ELSE "now"]),
           !.act[id] = e]

\* playAudio(audioUrl, id) up to `await audio.play()`
sgPlayAudio(s, id, allowed) ==
    LET s1 == sgStopAudio(s, id)
        e  == Len(s1.el) + 1
    IN  [s1 EXCEPT
           !.el = Append(@, [id |-> id,
                             st |-> IF allowed THEN "loading" ELSE "paused",
                             clean |-> FALSE,
                             vol |-> DefaultVolume,
                             rate |-> DefaultRate,
                             pend |-> IF allowed THEN "pending" ELSE "now"]),
           !.act[id] = e]

\* the catch block of playAudio for the call that created element e:
\* this.stopAudio(id), then rethrow
sgCatch(s, e) ==
    sgStopAudio([s EXCEPT !.el[e].pend = "none"], s.el[e].id)

RECURSIVE sgCatchAll(_, _)
sgCatchAll(s, es) ==
    IF es = {} THEN s
    ELSE LET e == CHOOSE x \in es : \A y \in es : x <= y
         IN  sgCatchAll(sgCatch(s, e), es \ {e})

\* the end of a synchronous segment: the catch blocks of the play promises
\* rejected in it run, and the state is stored
SgSet(s) ==
    LET r == sgCatchAll(s, { e \in 1..Len(s.el) : s.el[e].pend = "now" })
    IN  /\ sgEl' = r.el
        /\ activeAudio' = r.act
        /\ previews' = r.pv
        /\ activePreview' = r.apv

SgPlayAudio(id) ==
    /\ Len(sgEl) < MaxElems
    /\ \E allowed \in BOOLEAN : SgSet(sgPlayAudio(SgState, id, allowed))
    /\ UNCHANGED notSingleton

\* setVolume(id, volume) of the singleton manager
sgSetVolume(s, id, volume) ==
    IF s.act[id] = 0 THEN s
    ELSE [s EXCEPT !.el[s.act[id]].vol = Clamp(0, 1, volume)]

\* setPlaybackRate(id, rate): Math.max(0.5, Math.min(2, rate))
sgSetPlaybackRate(s, id, rate) ==
    IF s.act[id] = 0 THEN s
    ELSE [s EXCEPT !.el[s.act[id]].rate = Clamp(1, 4, rate)]

SgSetVolume(id) ==
    /\ \E volume \in VolumeArgs : SgSet(sgSetVolume(SgState, id, volume))
    /\ UNCHANGED notSingleton

SgSetPlaybackRate(id) ==
    /\ \E rate \in RateArgs : SgSet(sgSetPlaybackRate(SgState, id, rate))
    /\ UNCHANGED notSingleton

SgStopAudio(id) ==
    /\ activeAudio[id] # 0
    /\ SgSet(sgStopAudio(SgState, id))
    /\ UNCHANGED notSingleton

RECURSIVE sgStopEach(_, _)
sgStopEach(s, ids) ==
    IF ids = {} THEN s
    ELSE LET id == CHOOSE x \in ids : TRUE
         IN  sgStopEach(sgStopAudio(s, id), ids \ {id})

\* stopAudio(`preview-${voiceId}`): the entry's pause() is source.stop(), which
\* schedules the source's 'ended' event; its cleanup deletes the entry
sgStopPreview(s) ==
    IF s.apv = 0 THEN s
    ELSE [s EXCEPT !.pv[s.apv] = IF @ = "playing" THEN "stopped" ELSE @,
                   !.apv = 0]

\* generateVoicePreview(config) with an audio context at hand
generateVoicePreview(s) ==
    LET s1 == sgStopPreview(s)
    IN  [s1 EXCEPT !.pv = Append(@, "playing"), !.apv = Len(s1.pv) + 1]

\* the cleanup closure of a preview, run by the 'ended' listener of source p,
\* which no one removes: activeAudio.delete(`preview-${voiceId}`)
previewEnded(s, p) == [s EXCEPT !.pv[p] = "ended", !.apv = 0]

GenerateVoicePreview ==
    /\ Len(previews) < MaxPreviews
    /\ SgSet(generateVoicePreview(SgState))
    /\ UNCHANGED notSingleton

SgStopPreview ==
    /\ activePreview # 0
    /\ SgSet(sgStopPreview(SgState))
    /\ UNCHANGED notSingleton

\* the 'ended' event of source p: it played to its end or was stopped
PreviewEnded(p) ==
    /\ p \in 1..Len(previews)
    /\ previews[p] \in {"playing", "stopped"}
    /\ SgSet(previewEnded(SgState, p))
    /\ UNCHANGED notSingleton

\* stopAllAudio()
SgStopAllAudio ==
    /\ activePreview # 0 \/ \E id \in AudioIds : activeAudio[id] # 0
    /\ SgSet(sgStopPreview(sgStopEach(SgState, AudioIds)))
    /\ UNCHANGED notSingleton

\* the play promise of element e fulfils: its playAudio call resolves
SgPlayFulfils(e) ==
    /\ e \in 1..Len(sgEl)
    /\ sgEl[e].pend = "pending"
    /\ sgEl[e].st = "loading"
    /\ SgSet([SgState EXCEPT !.el[e].st = "playing", !.el[e].pend = "none"])
    /\ UNCHANGED notSingleton

\* the queued AbortError rejection of the play promise of element e runs
SgPlayRejects(e) ==
    /\ e \in 1..Len(sgEl)
    /\ sgEl[e].pend = "queued"
    /\ SgSet([SgState EXCEPT !.el[e].pend = "now"])
    /\ UNCHANGED notSingleton

\* the cleanup closure of element e: listeners removed, activeAudio.delete(id)
sgCleanup(s, e) ==
    [s EXCEPT !.el[e].clean = TRUE, !.act[s.el[e].id] = 0]

\* element e plays to its end: the user agent pauses it and fires 'pause' and
\* 'ended'; onPause runs cleanup
SgEnded(e) ==
    /\ e \in 1..Len(sgEl)
    /\ sgEl[e].st = "playing"
    /\ ~sgEl[e].clean
    /\ SgSet(sgCleanup([SgState EXCEPT !.el[e].st = "ended"], e))
    /\ UNCHANGED notSingleton

\* the source of element e fails to load or decode: 'error' fires, onError
\* runs cleanup, and a pending play promise is rejected
SgMediaError(e) ==
    /\ e \in 1..Len(sgEl)
    /\ Unpaused(sgEl[e])
    /\ ~sgEl[e].clean
    /\ SgSet(sgCleanup([SgState EXCEPT
            !.el[e].st = "error",
            !.el[e].pend = IF @ = "pending" THEN "now" ELSE @], e))
    /\ UNCHANGED notSingleton

SingletonInit ==
    /\ sgEl = <<>>
    /\ activeAudio = [id \in AudioIds |-> 0]
    /\ previews = <<>>
    /\ activePreview = 0

SingletonNext ==
    \/ \E id \in AudioIds : SgPlayAudio(id)
    \/ \E id \in AudioIds : SgStopAudio(id)
    \/ SgStopAllAudio
    \/ \E e \in 1..MaxElems : SgPlayFulfils(e)
    \/ \E e \in 1..MaxElems : SgPlayRejects(e)
    \/ \E e \in 1..MaxElems : SgEnded(e)
    \/ \E e \in 1..MaxElems : SgMediaError(e)
    \/ GenerateVoicePreview
    \/ SgStopPreview
    \/ \E p \in 1..MaxPreviews : PreviewEnded(p)

\* the calls of the singleton manager that set volume and playback rate,
\* with playAudio and stopAudio
SingletonVolumeNext ==
    \/ \E id \in AudioIds : SgPlayAudio(id)
    \/ \E id \in AudioIds : SgStopAudio(id)
    \/ \E id \in AudioIds : SgSetVolume(id)
    \/ \E id \in AudioIds : SgSetPlaybackRate(id)

\* isPlaying(id) of the singleton manager
sgIsPlaying(id) == activeAudio[id] # 0 /\ Unpaused(sgEl[activeAudio[id]])

\* C3: at most one registered instance of the singleton manager is playing.
C3_OnePlaying == Cardinality({ id \in AudioIds : sgIsPlaying(id) }) <= 1

\* an Audio element that is neither stopped nor unregistered
Live(e) == Unpaused(sgEl[e]) /\ ~sgEl[e].clean

\* C9: at no time do two live Audio elements exist for one id, in particular
\* when playAudio is called again on an id whose play promise is pending.
C9_OneLiveElementPerId ==
    \A e1, e2 \in 1..Len(sgEl) :
        (Live(e1) /\ Live(e2) /\ sgEl[e1].id = sgEl[e2].id) => e1 = e2

\* playAudio was called on an id while the play promise of its earlier element
\* was pending; the later element is live
C9_Witness ==
    \E e1, e2 \in 1..Len(sgEl) :
        /\ e1 < e2
        /\ sgEl[e1].id = sgEl[e2].id
        /\ sgEl[e1].pend = "queued"
        /\ Live(e2)

\* isPlaying(id) of audio-manager.ts evaluated right after stopAudio(id)
StopThenIsPlaying(id) == stopAudio(AmState, id).cur = id

\* isPlaying(id) of the singleton evaluated right after stopAudio(id)
SgStopThenIsPlaying(id) ==
    LET s == sgStopAudio(SgState, id)
    IN  s.act[id] # 0 /\ Unpaused(s.el[s.act[id]])

\* C26: a handler of a superseded instance of the singleton manager leaves a
\* newer instance registered under the same id alone: neither the catch block
\* of a playAudio call whose play promise is rejected late, nor the 'ended'
\* event of a preview source that is no longer the registered one, stops or
\* unregisters the instance registered now.
C26_StaleHandlerSparesNewer ==
    [][ /\ \A e \in 1..Len(sgEl) :
              LET n == activeAudio[sgEl[e].id]
              IN  (sgEl[e].pend = "queued" /\ sgEl'[e].pend = "none"
                     /\ n # 0 /\ n # e)
                  => (activeAudio'[sgEl[e].id] = n /\ sgEl'[n] = sgEl[n])
        /\ \A p \in 1..Len(previews) :
              (previews[p] # "ended" /\ previews'[p] = "ended"
                 /\ activePreview # 0 /\ activePreview # p)
              => activePreview' = activePreview
      ]_vars

\* C24: no call that sets a volume or a playback rate fails, every registered
\* instance's volume lies in [0, 1], and every registered element's volume
\* lies in [0, 1] and its playbackRate in [0.5, 2].
C24_ParametersClamped ==
    /\ ~volThrew
    /\ \A id \in AudioIds :
          Registered(AmState, id) =>
              (instances[id].vol >= 0 /\ instances[id].vol <= 1)
    /\ \A id \in AudioIds :
          activeAudio[id] # 0 =>
              /\ sgEl[activeAudio[id]].vol >= 0 /\ sgEl[activeAudio[id]].vol <= 1
              /\ sgEl[activeAudio[id]].rate >= 1 /\ sgEl[activeAudio[id]].rate <= 4

\* C12: in both AudioManager variants and in every reachable state (no session
\* for the id, play promise pending, playing, paused or ended), isPlaying(id)
\* evaluated immediately after stopAudio(id) is false.
C12_StopThenNotPlaying ==
    \A id \in AudioIds : ~StopThenIsPlaying(id) /\ ~SgStopThenIsPlaying(id)

\* stopAudio(id) has acted on an element of the singleton whose play promise
\* was pending: the element is paused, the id has no entry, isPlaying(id) is false
C12_Witness ==
    \E e \in 1..Len(sgEl) :
        /\ sgEl[e].clean /\ sgEl[e].pend = "queued" /\ ~Unpaused(sgEl[e])
        /\ activeAudio[sgEl[e].id] = 0
        /\ ~sgIsPlaying(sgEl[e].id)

(***************************************************************************)
(* RecordingManager.                                                       *)
(***************************************************************************)
StartCalls == 1..MaxStarts

\* options.maxDuration, in seconds
maxDuration == 2

\* A MediaRecorder: its state; whether its 'start' and 'stop' events are
\* queued; whether stopRecording added its once-listener handleStop; the
\* startRecording call that awaits that stopRecording promise (0 when the
\* caller is the application, destroy or the duration timer).  Kept for the
\* properties: the seconds it has spent in the recording state, the number of
\* non-empty chunks it has delivered, the number of chunks in the blob its
\* stopRecording promise resolved with (0 for null, -1 while not resolved), and
\* how often onMaxDurationReached was invoked for it.
NewRecorder ==
    [st |-> "recording", startEvt |-> TRUE, stopEvt |-> FALSE,
     listener |-> FALSE, waiter |-> 0,
     elapsed |-> 0, delivered |-> 0, result |-> -1, maxReached |-> 0]

RecState ==
    [pc |-> recPc, mr |-> mediaRecorder, recs |-> recorders,
     stream |-> stream, stopped |-> streamStopped,
     chunks |-> chunks, startTime |-> startTime, paused |-> pausedDuration,
     timer |-> durationTimer, now |-> recNow, err |-> startError,
     sup |-> isSupported]

\* cleanup(): stop the duration timer, stop the tracks of this.stream, forget
\* stream and recorder, reset chunks, startTime and pausedDuration
recCleanup(s) ==
    [s EXCEPT !.timer = FALSE,
              !.stopped = IF s.stream # 0
                          THEN [@ EXCEPT ![s.stream] = TRUE] ELSE @,
              !.stream = 0,
              !.mr = 0,
              !.chunks = 0,
              !.startTime = 0,
              !.paused = 0]

\* stopRecording() called by `who`, up to its return: with no active recorder
\* it cleans up and resolves at once; otherwise it adds handleStop and calls
\* mediaRecorder.stop(), which makes the recorder inactive and queues 'stop'
recStopRecording(s, who) ==
    IF s.mr = 0 \/ s.recs[s.mr].st = "inactive"
    THEN recCleanup(s)
    ELSE [s EXCEPT !.recs[s.mr].st = "inactive",
                   !.recs[s.mr].stopEvt = TRUE,
                   !.recs[s.mr].listener = TRUE,
                   !.recs[s.mr].waiter = who]

\* whether the promise of that stopRecording call is resolved at once
StopsAtOnce(s) == s.mr = 0 \/ s.recs[s.mr].st = "inactive"

\* getCurrentDuration() without the test for an inactive recorder
durationAnyState(s) ==
    IF s.mr = 0 THEN 0
    ELSE s.paused + (IF s.recs[s.mr].st # "paused" THEN s.now - s.startTime ELSE 0)

\* getCurrentDuration()
getCurrentDuration(s) ==
    IF s.mr = 0 \/ s.recs[s.mr].st = "inactive" THEN 0
    ELSE s.paused + (IF s.recs[s.mr].st = "recording" THEN s.now - s.startTime ELSE 0)

RecSet(s) ==
    /\ recPc' = s.pc
    /\ mediaRecorder' = s.mr
    /\ recorders' = s.recs
    /\ stream' = s.stream
    /\ streamStopped' = s.stopped
    /\ chunks' = s.chunks
    /\ startTime' = s.startTime
    /\ pausedDuration' = s.paused
    /\ durationTimer' = s.timer
    /\ recNow' = s.now
    /\ isSupported' = s.sup
    /\ startError' = s.err

\* the platform's reasons for refusing a recording: the names of the
\* DOMExceptions getUserMedia rejects with, and the missing recording API
RefusalReasons ==
    {"NotAllowedError", "NotFoundError", "NotSupportedError", "NotReadableError",
     "missing API"}

NoStartError == [reason |-> "none", err |-> NoError]

\* the error startRecording raises for a refusal
refusalError(reason) ==
    IF reason = "missing API"
    THEN PlainError("Error", <<"Recording not supported in this browser">>)
    ELSE DomException(reason)

\* the catch block of startRecording: a new Error wrapping the message of the
\* caught one goes to onError and, after cleanup(), to the caller
startCatch(s, c, reason) ==
    [recCleanup(s) EXCEPT !.pc[c] = "failed",
                          !.err = [reason |-> reason,
                                   err |-> PlainError("Error",
                                               <<"Failed to start recording: ">>
                                               \o refusalError(reason).msg)]]

\* startRecording() up to its first real suspension: the support check, then
\* `await this.stopRecording()` and, when that resolves at once, the
\* getUserMedia request
StartRecording(c) ==
    /\ recPc[c] = "idle"
    /\ \A d \in StartCalls : d < c => recPc[d] # "idle"
    /\ \E sup \in BOOLEAN :
         \* what the browser supports does not change after the first call
         /\ (\E d \in StartCalls : recPc[d] # "idle") => sup = isSupported
         /\ LET s0 == [RecState EXCEPT !.sup = sup]
            IN  IF ~sup
                THEN RecSet(startCatch(s0, c, "missing API"))
                ELSE LET s1 == recStopRecording(s0, c)
                     IN  RecSet([s1 EXCEPT !.pc[c] = IF StopsAtOnce(RecState)
                                                     THEN "awaitGUM" ELSE "awaitStop"])
    /\ UNCHANGED notRecording

\* the 'start' event of recorder r: onstart starts the duration timer
StartEvent(r) ==
    /\ r \in 1..Len(recorders)
    /\ recorders[r].startEvt
    /\ RecSet([RecState EXCEPT !.recs[r].startEvt = FALSE, !.timer = TRUE])
    /\ UNCHANGED notRecording

\* a 'dataavailable' event of recorder r with a non-empty chunk
ondataavailable(s, r) ==
    [s EXCEPT !.chunks = @ + 1, !.recs[r].delivered = @ + 1]

DataAvailable(r) ==
    /\ r \in 1..Len(recorders)
    /\ recorders[r].st = "recording"
    /\ ~recorders[r].startEvt
    /\ recorders[r].delivered < MaxChunks
    /\ RecSet(ondataavailable(RecState, r))
    /\ UNCHANGED notRecording

\* handleStop: build the blob from this.chunks, cleanup(), resolve
handleStop(s, r) ==
    LET s1 == recCleanup([s EXCEPT !.recs[r].result = s.chunks,
                                   !.recs[r].listener = FALSE,
                                   !.recs[r].waiter = 0])
        w  == s.recs[r].waiter
    IN  IF w \in StartCalls THEN [s1 EXCEPT !.pc[w] = "awaitGUM"] ELSE s1

\* the 'stop' event of recorder r, after its last 'dataavailable' event (whose
\* chunk may be empty): onstop stops the duration timer, then handleStop runs
\* if it was added; a startRecording call that awaited it requests the microphone
StopEvent(r) ==
    /\ r \in 1..Len(recorders)
    /\ recorders[r].stopEvt
    /\ ~recorders[r].startEvt
    /\ \E last \in BOOLEAN :
         /\ last => recorders[r].delivered < MaxChunks
         /\ LET s0 == IF last THEN ondataavailable(RecState, r) ELSE RecState
                s1 == [s0 EXCEPT !.recs[r].stopEvt = FALSE, !.timer = FALSE]
            IN  RecSet(IF recorders[r].listener THEN handleStop(s1, r) ELSE s1)
    /\ UNCHANGED notRecording

\* getUserMedia resolves for call c: this.stream = the new stream, then the
\* MediaRecorder is created and started; if its constructor throws, the catch
\* block runs cleanup()
GetUserMediaResolves(c) ==
    /\ recPc[c] = "awaitGUM"
    /\ \E ctorOk \in BOOLEAN :
         LET n  == Len(streamStopped) + 1
             s1 == [RecState EXCEPT !.stopped = Append(@, FALSE), !.stream = n]
         IN  IF ctorOk
             THEN RecSet([s1 EXCEPT
                     !.recs = Append(@, NewRecorder),
                     !.mr = Len(s1.recs) + 1,
                     !.chunks = 0,
                     !.startTime = s1.now,
                     !.paused = 0,
                     !.pc[c] = "done"])
             ELSE RecSet([recCleanup(s1) EXCEPT !.pc[c] = "failed"])
    /\ UNCHANGED notRecording

\* getUserMedia rejects for call c: the catch block reports and runs cleanup()
GetUserMediaRejects(c) ==
    /\ recPc[c] = "awaitGUM"
    /\ \E reason \in RefusalReasons \ {"missing API"} :
           RecSet(startCatch(RecState, c, reason))
    /\ UNCHANGED notRecording

\* stopRecording() called by the application
StopRecording ==
    /\ Len(recorders) > 0
    /\ RecSet(recStopRecording(RecState, 0))
    /\ UNCHANGED notRecording

\* destroy(): stopRecording(), then cleanup()
Destroy ==
    /\ \E c \in StartCalls : recPc[c] # "idle"
    /\ RecSet(recCleanup(recStopRecording(RecState, 0)))
    /\ UNCHANGED notRecording

\* the 'error' event of recorder r: onerror reports and runs cleanup(); the
\* user agent has stopped the recorder
RecorderError(r) ==
    /\ r \in 1..Len(recorders)
    /\ recorders[r].st # "inactive"
    /\ RecSet(recCleanup([RecState EXCEPT !.recs[r].st = "inactive"]))
    /\ UNCHANGED notRecording

\* resumeRecording() without `this.startTime = Date.now()`
resumeKeepStart(s) ==
    [s EXCEPT !.recs[s.mr].st = "recording", !.timer = TRUE]

\* pauseRecording(), on a recorder that is recording
pauseRecording(s) ==
    [s EXCEPT !.recs[s.mr].st = "paused",
              !.paused = @ + (s.now - s.startTime),
              !.timer = FALSE]

\* resumeRecording(), on a recorder that is paused
resumeRecording(s) ==
    [s EXCEPT !.recs[s.mr].st = "recording",
              !.startTime = s.now,
              !.timer = TRUE]

PauseRecording ==
    /\ mediaRecorder # 0
    /\ recorders[mediaRecorder].st = "recording"
    /\ RecSet(pauseRecording(RecState))
    /\ UNCHANGED notRecording

ResumeRecording ==
    /\ mediaRecorder # 0
    /\ recorders[mediaRecorder].st = "paused"
    /\ RecSet(resumeRecording(RecState))
    /\ UNCHANGED notRecording

\* checkMaxDuration()
checkMaxDuration(s) ==
    IF getCurrentDuration(s) >= maxDuration
    THEN recStopRecording([s EXCEPT !.recs[s.mr].maxReached = @ + 1], 0)
    ELSE s

\* a tick of the duration timer
TimerTick ==
    /\ durationTimer
    /\ RecSet(checkMaxDuration(RecState))
    /\ UNCHANGED notRecording

\* a second passes
RecTick ==
    /\ recNow < MaxRecTime
    /\ RecSet([RecState EXCEPT
            !.now = @ + 1,
            !.recs = [r \in 1..Len(recorders) |->
                        IF recorders[r].st = "recording"
                        THEN [recorders[r] EXCEPT !.elapsed = @ + 1]
                        ELSE recorders[r]]])
    /\ UNCHANGED notRecording

RecordingInit ==
    /\ recPc = [c \in StartCalls |-> "idle"]
    /\ mediaRecorder = 0
    /\ recorders = <<>>
    /\ stream = 0
    /\ streamStopped = <<>>
    /\ chunks = 0
    /\ startTime = 0
    /\ pausedDuration = 0
    /\ durationTimer = FALSE
    /\ recNow = 0
    /\ isSupported = TRUE
    /\ startError = NoStartError

RecordingNext ==
    \/ \E c \in StartCalls : StartRecording(c)
    \/ \E r \in 1..MaxStarts : StartEvent(r)
    \/ \E r \in 1..MaxStarts : DataAvailable(r)
    \/ \E r \in 1..MaxStarts : StopEvent(r)
    \/ \E c \in StartCalls : GetUserMediaResolves(c)
    \/ \E c \in StartCalls : GetUserMediaRejects(c)
    \/ StopRecording
    \/ Destroy
    \/ \E r \in 1..MaxStarts : RecorderError(r)
    \/ PauseRecording
    \/ ResumeRecording
    \/ TimerTick
    \/ RecTick

\* the manager holds no recorder: cleanup() has run and nothing was started since
RecorderInactive == mediaRecorder = 0

\* C5: whenever the recorder is back in the inactive state, the tracks of
\* every stream obtained from getUserMedia have been stopped.
C5_StreamsReleased ==
    RecorderInactive => \A n \in 1..Len(streamStopped) : streamStopped[n]

\* the manager's recorder is in the recording state
Recording == mediaRecorder # 0 /\ recorders[mediaRecorder].st = "recording"

\* recorder r is the manager's recorder and is in the recording state
RecordingWith(r) ==
    r <= Len(recorders) /\ mediaRecorder = r /\ recorders[r].st = "recording"

\* while the manager's recorder is recording (its 'start' event processed) the
\* duration timer runs; a timer tick that finds the accumulated recording time
\* at or above maxDuration stops the recorder and invokes onMaxDurationReached;
\* onMaxDurationReached is invoked at most once for a recorder
AutoStopSafe ==
    /\ \A r \in 1..Len(recorders) : recorders[r].maxReached <= 1
    /\ (Recording /\ ~recorders[mediaRecorder].startEvt) => durationTimer
    /\ (Recording /\ recorders[mediaRecorder].elapsed >= maxDuration) =>
          LET s == checkMaxDuration(RecState)
          IN  /\ s.recs[mediaRecorder].st = "inactive"
              /\ s.recs[mediaRecorder].stopEvt
              /\ s.recs[mediaRecorder].maxReached = 1

\* C16: when the accumulated recording time reaches maxDuration while
\* recording, the duration timer stops the recording by itself (the recorder
\* leaves the recording state without any call of the application), and
\* onMaxDurationReached is invoked exactly once for that recorder, however many
\* timer ticks follow before its 'stop' event is processed.
C16_AutoStopOnce ==
    /\ []AutoStopSafe
    /\ \A r \in 1..MaxStarts :
          (RecordingWith(r) /\ recorders[r].elapsed >= maxDuration) ~> ~RecordingWith(r)

\* the timer stopped a recorder that reached maxDuration; its 'stop' event is
\* still queued and the timer is still running
C16_Witness ==
    \E r \in 1..Len(recorders) :
        /\ recorders[r].maxReached = 1
        /\ recorders[r].elapsed >= maxDuration
        /\ recorders[r].stopEvt
        /\ mediaRecorder = r
        /\ durationTimer

\* C17: a stopRecording() call on an active recorder resolves with a blob
\* built from all the non-empty chunks that recorder delivered, and with null
\* only if it delivered none.
C17_BlobHasAllChunks ==
    \A r \in 1..Len(recorders) :
        recorders[r].result # -1 => recorders[r].result = recorders[r].delivered

\* C18: while the manager holds a recorder that is recording or paused,
\* getCurrentDuration() equals the time that recorder has spent in the
\* recording state.
C18_DurationIsRecordedTime ==
    (mediaRecorder # 0 /\ recorders[mediaRecorder].st # "inactive") =>
        getCurrentDuration(RecState) = recorders[mediaRecorder].elapsed

\* a recording that was paused after some recorded time, stayed paused for a
\* while, was resumed and has recorded again
C18_Witness ==
    /\ Recording
    /\ pausedDuration >= 1
    /\ recNow > startTime
    /\ recorders[mediaRecorder].elapsed + 1 <= recNow
    /\ recorders[mediaRecorder].elapsed = pausedDuration + (recNow - startTime)
    /\ Len(recorders) = 1

\* the kind an error carries: a recording error of classifyAudioError, told
\* by its message
ErrorKind(error) ==
    IF error.type # "recording" THEN "none"
    ELSE CASE error.msg = <<"Microphone access denied.">> -> "PermissionDenied"
           [] error.msg = <<"No microphone found.">> -> "NoDevice"
           [] error.msg = <<"Audio recording not supported in this browser.">> ->
                  "Unsupported"
           [] OTHER -> "none"

\* the kind a platform refusal maps to
ReasonKind(reason) ==
    CASE reason = "NotAllowedError" -> "PermissionDenied"
      [] reason = "NotFoundError" -> "NoDevice"
      [] reason \in {"NotSupportedError", "missing API"} -> "Unsupported"
      [] OTHER -> "none"

\* C19: when startRecording() fails because the platform refuses (permission
\* denied, no device, recording unsupported), the error handed to onError and
\* to the caller carries the kind mapped from the reason and is marked
\* non-retryable.
C19_StartErrorCarriesKind ==
    ReasonKind(startError.reason) # "none" =>
        /\ ErrorKind(startError.err) = ReasonKind(startError.reason)
        /\ startError.err.retryable = "false"

\* an error that is not to be retried: a DOMException classifyAudioError
\* marks non-retryable, or an AudioError created with retryable = false
NonRetryable(error) ==
    \/ /\ error.cls = "DOMException"
       /\ error.name \in {"NotAllowedError", "NotFoundError",
                          "NotSupportedError", "DecodingError"}
    \/ error.retryable = "false"

\* C20: once the operation of withRetry has failed with a non-retryable
\* error, it is not invoked again: withRetry has thrown, and the error it
\* threw has retryable = false.
C20_NoRetryOfNonRetryable ==
    NonRetryable(opError) =>
        /\ retryPc = "threw"
        /\ thrown.retryable = "false"

\* the safety part of C30
RetryBounded ==
    /\ attempt <= maxAttempts
    /\ retryPc = "waiting" => attempt < maxAttempts
    /\ retryPc = "threw" => (attempt = maxAttempts \/ thrown.retryable # "true")
    /\ retryPc # "idle" =>
          onRetryCalls = [i \in 1..(IF retryPc = "waiting" THEN attempt
                                                            ELSE attempt - 1) |-> i]

\* C30: withRetry(operation, {maxAttempts: n}) with n >= 1 invokes operation
\* at most n times, makes no attempt after one that fulfilled, does not wait
\* for a retry after the n-th failure, has called onRetry once before each
\* re-attempt with the number of the attempt that failed, and always settles
\* (given that each attempt settles and each delay passes).
C30_RetryBoundedAndSettles ==
    /\ []RetryBounded
    /\ [][retryPc = "returned" => (retryPc' = "returned" /\ attempt' = attempt)]_vars
    /\ (retryPc # "idle") ~> (retryPc \in {"returned", "threw"})

\* withRetry rejected after the third of three attempts, onRetry called twice
C30_Witness ==
    /\ retryPc = "threw"
    /\ maxAttempts = 3
    /\ attempt = 3
    /\ onRetryCalls = <<1, 2>>

\* C13: from every reachable registry, for every id and blob size,
\* createBlobUrl(blob, id) then revokeBlobUrl(id) then accessBlobUrl(id)
\* returns null, and a second revokeBlobUrl(id) leaves the registry unchanged.
C13_RoundTrip ==
    \A id \in BlobIds, size \in BlobSizes :
        LET r1 == createBlobUrl(PmState, id, size, nextUrl, now)
            r2 == revokeBlobUrl(r1, id)
        IN  /\ accessBlobUrlValue(accessBlobUrl(r2, id, now), id) = NoEntry.url
            /\ revokeBlobUrl(r2, id) = r2

\* an id was registered and revoked again while another entry stays:
\* its lookup returns null and its URL is revoked
C13_Witness ==
    \E id \in BlobIds :
        /\ ~HasEntry(PmState, id)
        /\ accessBlobUrlValue(PmState, id) = NoEntry.url
        /\ revoked # {}
        /\ blobOrder # <<>>

\* the aggregate size checkMemoryUsage found in the latest createBlobUrl call
CreatedTotal == SumSizes(lastCreate.reg, lastCreate.order)

\* C14: when createBlobUrl has returned, the aggregate size of the registered
\* blobs is at most maxBlobSize, and if the insertion had pushed the aggregate
\* above maxBlobSize it is at most 80% of maxBlobSize.
C14_BudgetEnforced ==
    lastCreate.id # "none" =>
        /\ TotalSize(PmState) <= maxBlobSize
        /\ (CreatedTotal > maxBlobSize => TotalSize(PmState) * 10 <= maxBlobSize * 8)

\* createBlobUrl has returned from an insertion that pushed the aggregate above
\* maxBlobSize, with two entries registered, and an entry is left
C14_Witness ==
    /\ lastCreate.id # "none"
    /\ CreatedTotal > maxBlobSize
    /\ Len(lastCreate.order) = 2
    /\ blobOrder # <<>>

\* the entries the budget pass of the latest createBlobUrl call evicted
Evicted == SeqToSet(lastCreate.order) \ SeqToSet(blobOrder)

\* C15: a budget pass evicts in ascending order of lastAccessed: an entry is
\* evicted only if every entry with a strictly smaller lastAccessed is evicted
\* in the same pass; a pass runs only above maxBlobSize; and it stops as soon as
\* the aggregate is at or below 80% of maxBlobSize, so the aggregate was still
\* above 80% before the latest-accessed evicted entry went.
C15_EvictionOrder ==
    lastCreate.id # "none" =>
        /\ \A e \in Evicted, f \in SeqToSet(lastCreate.order) :
              lastCreate.reg[f].lastAccessed < lastCreate.reg[e].lastAccessed
                  => f \in Evicted
        /\ Evicted # {} =>
              /\ CreatedTotal > maxBlobSize
              /\ \E e \in Evicted :
                    /\ \A f \in Evicted :
                          lastCreate.reg[f].lastAccessed <= lastCreate.reg[e].lastAccessed
                    /\ (TotalSize(PmState) + lastCreate.reg[e].size) * 10 > maxBlobSize * 8

\* a pass evicted an entry and kept one that was inserted earlier and accessed
\* since (not the entry just inserted)
C15_Witness ==
    /\ lastCreate.id # "none"
    /\ \E i, j \in 1..Len(lastCreate.order) :
          /\ i < j
          /\ lastCreate.order[i] \notin Evicted
          /\ lastCreate.order[i] # lastCreate.id
          /\ lastCreate.order[j] \in Evicted

\* the entries a sweep at the present time is to remove: last accessed more
\* than maxBlobAge / 2 ago, or created more than maxBlobAge ago
Stale ==
    { id \in SeqToSet(blobOrder) :
        \/ now - blobRegistry[id].lastAccessed > maxBlobAge \div 2
        \/ now - blobRegistry[id].createdAt > maxBlobAge }

\* C23: from every reachable registry, cleanupBlobs() removes and revokes
\* exactly the entries last accessed more than 15 minutes (maxBlobAge / 2) ago
\* or created more than 30 minutes (maxBlobAge) ago, and leaves every other
\* entry in the registry unchanged.
C23_SweepExact ==
    LET r == cleanupBlobs(PmState, now)
    IN  /\ SeqToSet(r.order) = SeqToSet(blobOrder) \ Stale
        /\ \A id \in SeqToSet(r.order) : r.reg[id] = blobRegistry[id]
        /\ r.rev = revoked \cup { blobRegistry[id].url : id \in Stale }

\* a sweep is due on a registry that holds an entry accessed within
\* maxBlobAge / 2 but older than maxBlobAge, and an entry that is to stay
C23_Witness ==
    /\ \E id \in Stale : now - blobRegistry[id].lastAccessed <= maxBlobAge \div 2
    /\ SeqToSet(blobOrder) \ Stale # {}
    /\ cleanupBlobs(PmState, now).order # blobOrder

\* C28: when createBlobUrl(blob, id) has returned, the entry of id holds the
\* URL it returned and that URL has not been revoked.
C28_CreatedUrlValid ==
    lastCreate.id # "none" =>
        /\ HasEntry(PmState, lastCreate.id)
        /\ blobRegistry[lastCreate.id].url = lastCreate.reg[lastCreate.id].url
        /\ lastCreate.reg[lastCreate.id].url \notin revoked

\* C29: every URL that createBlobUrl has created is revoked or is the URL of a
\* registry entry.
C29_NoLeakedUrl ==
    \A u \in 1..(nextUrl - 1) :
        \/ u \in revoked
        \/ \E id \in SeqToSet(blobOrder) : blobRegistry[id].url = u

\* C6: the URL of every registry entry, which is what accessBlobUrl returns,
\* has not been revoked.
C6_RegisteredUrlNotRevoked ==
    \A id \in BlobIds :
        HasEntry(PmState, id) => blobRegistry[id].url \notin revoked

(***************************************************************************)
(* Specifications: the whole program, and each manager on its own.         *)
(***************************************************************************)
Init ==
    /\ LimiterInit /\ RegistryInit /\ AudioInit /\ SingletonInit
    /\ RecordingInit /\ RetryInit

Next ==
    \/ LimiterNext \/ RegistryNext \/ AudioNext \/ SingletonNext
    \/ RecordingNext \/ RetryNext

Spec == Init /\ [][Next]_vars

LimiterSpec == Init /\ [][LimiterNext]_vars

\* waiting without preemption: every call has priority normal
LimiterFairSpec == Init /\ [][LimiterNormalNext]_vars /\ LimiterFairness

LimiterSameSpec == Init /\ [][LimiterSameNext]_vars

AudioSpec == Init /\ [][AudioNext]_vars

AudioPlaySpec == Init /\ [][AudioPlayNext]_vars

SingletonSpec == Init /\ [][SingletonNext]_vars

\* either of the two AudioManager variants in use, the other one untouched
EitherAudioNext ==
    \/ SingletonInit /\ AudioNext
    \/ AudioInit /\ SingletonNext

EitherAudioSpec == Init /\ [][EitherAudioNext]_vars

\* either manager's volume and playback rate setters, next to an unused other
VolumeNext ==
    \/ SingletonInit /\ AudioVolumeNext
    \/ AudioInit /\ SingletonVolumeNext

VolumeSpec == Init /\ [][VolumeNext]_vars

RecordingSpec == Init /\ [][RecordingNext]_vars

\* the events of the recorder and of the duration timer are delivered
RecordingFairness ==
    /\ WF_vars(TimerTick)
    /\ \A r \in 1..MaxStarts : WF_vars(StartEvent(r))

RecordingFairSpec == Init /\ [][RecordingNext]_vars /\ RecordingFairness

RegistrySpec == Init /\ [][RegistryNext]_vars

\* the blob registry used together with AudioManager (audio-manager.ts),
\* within one tick of the clock
RegistryAudioSpec == Init /\ [][RegistryCallNext \/ AudioLifecycleNext]_vars

RetrySpec == Init /\ [][RetryNext]_vars

\* each attempt of the operation settles and each delay passes
RetryFairness ==
    /\ WF_vars(OperationFulfils \/ \E error \in OpErrors : OperationRejects(error))
    /\ WF_vars(RetryTimer)

RetryFairSpec == RetrySpec /\ RetryFairness
====
